---- MODULE Spec2Model ----
(***************************************************************************)
(* Model of minecraft-assets-cache/create/main.mjs: run, downloadAssets,   *)
(* getAssetIndices, downloadJson, downloadIfChanged, hashMinecraftVersions *)
(* and guessCurrentMinecraftVersionFromFile.                               *)
(*                                                                         *)
(* Bytes are sequences of numbers 0..255, a digest is a sequence of hex    *)
(* digits, a path is a sequence of path segments (each segment a sequence  *)
(* of numbers, so that all paths are comparable).  Every await of the      *)
(* source is a step of the model: the code between two awaits of one       *)
(* async function is one action.                                           *)
(***************************************************************************)
EXTENDS Integers, Sequences, FiniteSets, TLC

\* main.mjs:9
maxDownloadRetries == 5

\* Bounds of the model.  The chunk size maxConcurrency (main.mjs:8) is 20 in
\* the source: 20 concurrent downloads have too many interleavings to
\* enumerate, so the model is checked with a chunk size of 2 (and 3), and an
\* asset index of more objects than one chunk holds.  Every definition and
\* formula below is written in terms of maxConcurrency.
maxConcurrency == 2
MaxVersions == 2      \* longest list of requested versions
BigObjects == 3       \* distinct objects of the large asset index
MaxFileChars == 3     \* longest content of minecraft-version-file
MaxPatternChars == 4  \* longest pattern of minecraft-version-regexp

NoFile == <<-1>>      \* the content of a path that does not exist (ENOENT)
undefined == <<-2>>   \* a buffer that was never assigned

Min(a, b) == IF a < b THEN a ELSE b
Range(s) == {s[i] : i \in DOMAIN s}

(***************************** digests ************************************)
\* digest("hex") of one byte: two hex digits.
Hex(byte) == <<byte \div 16, byte % 16>>

RECURSIVE HexDigest(_)
HexDigest(buffer) ==
  IF buffer = <<>> THEN <<>> ELSE Hex(Head(buffer)) \o HexDigest(Tail(buffer))

\* createHash("sha1").update(buffer).digest("hex"): an injective digest (no
\* collisions): the hex digits of the bytes followed by a length digit.
createHash(buffer) == HexDigest(buffer) \o <<Len(buffer) % 16>>

(****************************** paths *************************************)
assetsFolder == <<1000>>    \* "assets"
indexesDir == <<1001>>      \* "indexes"
objectsDir == <<1002>>      \* "objects"

\* assetIndex.id + ".json"
JsonName(id) == CASE id = "A" -> <<1010>>
                  [] id = "B" -> <<1011>>
                  [] id = "Big" -> <<1012>>

\* main.mjs:70-74
assetIndexPath(id) == <<assetsFolder, indexesDir, JsonName(id)>>

\* main.mjs:101: hash.substring(0, 2)
hashPrefix(hash) == SubSeq(hash, 1, Min(2, Len(hash)))

\* main.mjs:103-108
objectPath(hash) == <<assetsFolder, objectsDir, hashPrefix(hash), hash>>

\* main.mjs:102
objectUrl(hash) == [kind |-> "object", name |-> <<hashPrefix(hash), hash>>]

\* path.dirname
dirname(p) == SubSeq(p, 1, Len(p) - 1)

\* the directories mkdir(dir, {recursive: true}) makes sure exist
Ancestors(dir) == {SubSeq(dir, 1, n) : n \in 1..Len(dir)}

(**************************** the remote **********************************)
\* Object k of the remote object store is the one-byte file <<k>>.
ObjectBlob(k) == <<k>>
ObjectEntry(k) == [hash |-> createHash(ObjectBlob(k)), size |-> Len(ObjectBlob(k))]

\* The asset index documents (their bytes).
DocA1 == <<201>>
DocA2 == <<202>>
DocB == <<203>>
DocBig == <<204>>

\* Object.values(JSON.parse(content).objects): the values in document order;
\* not ok when the content is no JSON document with an objects field.
\* DocA1 names object 1 under two logical paths.
JsonObjects(content) ==
  CASE content = DocA1 ->
         [ok |-> TRUE, values |-> <<ObjectEntry(1), ObjectEntry(2), ObjectEntry(1)>>]
    [] content = DocA2 -> [ok |-> TRUE, values |-> <<ObjectEntry(2)>>]
    [] content = DocB -> [ok |-> TRUE, values |-> <<ObjectEntry(3)>>]
    [] content = DocBig ->
         [ok |-> TRUE, values |-> [k \in 1..BigObjects |-> ObjectEntry(k)]]
    [] OTHER -> [ok |-> FALSE, values |-> <<>>]

Descriptor(id, doc) ==
  [id |-> id, url |-> [kind |-> "index", name |-> <<doc>>],
   sha1 |-> createHash(doc), size |-> Len(doc)]

\* version_manifest_v2.json: the versions the remote knows.
indexManifest == {"v1", "v2", "v3", "v4", "vBig"}

\* The assetIndex of each version's metadata.  v1 and v2 share one asset
\* index; v3 names the id of that index with another document.
VersionMeta(version) ==
  CASE version = "v1" -> Descriptor("A", DocA1)
    [] version = "v2" -> Descriptor("A", DocA1)
    [] version = "v3" -> Descriptor("A", DocA2)
    [] version = "v4" -> Descriptor("B", DocB)
    [] version = "vBig" -> Descriptor("Big", DocBig)

\* What the origin holds at a url.
Origin(url) ==
  IF url.kind = "index" THEN url.name[1]
  ELSE CHOOSE b \in {ObjectBlob(k) : k \in 1..BigObjects} :
         createHash(b) = url.name[2]

\* Damaged copies of a content: one byte short, and one byte changed.
Truncated(content) == SubSeq(content, 1, Len(content) - 1)
Corrupted(content) == [content EXCEPT ![1] = (content[1] + 100) % 256]

\* The responses a GET of a url can produce.
Responses(url) ==
  {[ok |-> TRUE, status |-> 200, body |-> b] :
     b \in {Origin(url), Truncated(Origin(url)), Corrupted(Origin(url))}}
  \cup {[ok |-> FALSE, status |-> 500, body |-> <<>>]}

(************* guessCurrentMinecraftVersionFromFile ***********************)
\* A string is a sequence of characters, a character a string of length one.
\* The files and patterns of the model are written in these characters.
FileChars == {"a", "b"}
PatternChars == {"a", ".", "+", "(", ")"}
Letters == {"a", "b", "g", "z"}          \* the characters [a-z] matches
RegExpFlags == {"d", "g", "i", "m", "s", "u", "v", "y"}

\* What a call leaves: nothing yet, a value (a string or undefined) or an
\* error.
NotCalled == [status |-> "none", defined |-> FALSE, value |-> <<>>]
ReturnedUndefined == [status |-> "returned", defined |-> FALSE, value |-> <<>>]
ReturnedString(str) == [status |-> "returned", defined |-> TRUE, value |-> str]
Threw(error) == [status |-> error, defined |-> FALSE, value |-> <<>>]

\* main.mjs:315: minecraftVersionRegexp.match(/\/(.*)\/([a-z]*)/) (on a
\* string without line terminators): the match begins at the first "/" that
\* has a "/" after it, the greedy .* ends before the last "/", and the flags
\* are the letters that follow it, up to the first other character.
Slashes(str) == {i \in DOMAIN str : str[i] = "/"}
First(S) == CHOOSE i \in S : \A j \in S : i <= j
Last(S) == CHOOSE i \in S : \A j \in S : j <= i

RECURSIVE LettersFrom(_, _)
LettersFrom(str, i) ==
  IF i <= Len(str) /\ str[i] \in Letters
  THEN <<str[i]>> \o LettersFrom(str, i + 1)
  ELSE <<>>

PatternMatch(str) ==
  IF Cardinality(Slashes(str)) < 2
  THEN [ok |-> FALSE, pattern |-> <<>>, flags |-> <<>>]
  ELSE [ok |-> TRUE,
        pattern |-> SubSeq(str, First(Slashes(str)) + 1, Last(Slashes(str)) - 1),
        flags |-> LettersFrom(str, Last(Slashes(str)) + 1)]

\* new RegExp(pattern, flags), for the patterns made of characters that
\* stand for themselves, the wildcard ".", the greedy quantifier "+" on a character or
\* wildcard, and groups that are neither nested nor quantified.  A pattern
\* is compiled to a sequence of atoms; compiling fails with a SyntaxError on
\* a quantifier with nothing to repeat and on unbalanced parentheses.
Atom(kind, char) == [kind |-> kind, char |-> char, plus |-> FALSE, group |-> 0]

RECURSIVE Compile(_, _, _)
Compile(pattern, i, st) ==
  IF i > Len(pattern)
  THEN IF st.depth > 0 THEN [st EXCEPT !.error = TRUE] ELSE st
  ELSE LET c == pattern[i]
       IN CASE c = "(" ->
                 Compile(pattern, i + 1,
                         [st EXCEPT !.depth = @ + 1, !.groups = @ + 1,
                                    !.nested = @ \/ st.depth > 0,
                                    !.prev = "open",
                                    !.atoms = Append(@, [Atom("open", c) EXCEPT
                                                           !.group = st.groups + 1])])
            [] c = ")" ->
                 IF st.depth = 0 THEN [st EXCEPT !.error = TRUE]
                 ELSE Compile(pattern, i + 1,
                              [st EXCEPT !.depth = @ - 1, !.prev = "close",
                                         !.atoms = Append(@, [Atom("close", c) EXCEPT
                                                                !.group = st.groups])])
            [] c = "+" ->
                 IF st.prev \in {"start", "open", "plus"}
                 THEN [st EXCEPT !.error = TRUE]
                 ELSE Compile(pattern, i + 1,
                              [st EXCEPT !.prev = "plus",
                                         !.quantifiedGroup = @ \/ st.prev = "close",
                                         !.atoms = [@ EXCEPT ![Len(@)].plus = TRUE]])
            [] OTHER ->
                 Compile(pattern, i + 1,
                         [st EXCEPT !.prev = "atom",
                                    !.atoms = Append(@, Atom(IF c = "." THEN "any"
                                                             ELSE "char", c))])

CompileStart ==
  [depth |-> 0, groups |-> 0, nested |-> FALSE, quantifiedGroup |-> FALSE,
   prev |-> "start", error |-> FALSE, atoms |-> <<>>]

NoDuplicates(str) == \A i, j \in DOMAIN str : str[i] = str[j] => i = j

RegExp(pattern, flags) ==
  LET st == Compile(pattern, 1, CompileStart)
  IN [ok |-> /\ ~st.error
             /\ \A i \in DOMAIN flags : flags[i] \in RegExpFlags
             /\ NoDuplicates(flags),
      atoms |-> st.atoms]

\* The patterns the model covers.
Covered(pattern) ==
  LET st == Compile(pattern, 1, CompileStart)
  IN st.error \/ (~st.nested /\ ~st.quantifiedGroup)

\* atom k matches the character c
AtomMatches(atom, c) == atom.kind = "any" \/ (atom.kind = "char" /\ atom.char = c)

\* RegExp.prototype.exec at one position: the backtracking matcher.  The
\* atoms from k on are matched against str from position pos on; a
\* quantified atom takes as many characters as it can and gives them back
\* one by one.  cap is the capture of group 1.
RECURSIVE MatchFrom(_, _, _, _, _), Repeat(_, _, _, _, _, _), Run(_, _, _)
NoMatch == [ok |-> FALSE, from |-> 0, to |-> 0, captured |-> FALSE, gfrom |-> 0, gto |-> 0]

Run(atom, str, pos) ==
  IF pos <= Len(str) /\ AtomMatches(atom, str[pos])
  THEN 1 + Run(atom, str, pos + 1)
  ELSE 0

MatchFrom(atoms, k, str, pos, cap) ==
  IF k > Len(atoms) THEN [cap EXCEPT !.ok = TRUE, !.to = pos]
  ELSE CASE atoms[k].kind = "open" ->
              MatchFrom(atoms, k + 1, str, pos,
                        IF atoms[k].group = 1 THEN [cap EXCEPT !.gfrom = pos] ELSE cap)
         [] atoms[k].kind = "close" ->
              MatchFrom(atoms, k + 1, str, pos,
                        IF atoms[k].group = 1
                        THEN [cap EXCEPT !.gto = pos, !.captured = TRUE] ELSE cap)
         [] OTHER ->
              IF atoms[k].plus
              THEN Repeat(atoms, k, str, pos, cap, Run(atoms[k], str, pos))
              ELSE IF pos <= Len(str) /\ AtomMatches(atoms[k], str[pos])
                   THEN MatchFrom(atoms, k + 1, str, pos + 1, cap)
                   ELSE NoMatch

Repeat(atoms, k, str, pos, cap, n) ==
  IF n = 0 THEN NoMatch
  ELSE LET m == MatchFrom(atoms, k + 1, str, pos + n, cap)
       IN IF m.ok THEN m ELSE Repeat(atoms, k, str, pos, cap, n - 1)

\* RegExp.prototype.exec of a new RegExp (lastIndex 0, not sticky): the
\* match at the first position that has one.
RECURSIVE ExecFrom(_, _, _)
ExecFrom(atoms, str, pos) ==
  IF pos > Len(str) + 1 THEN NoMatch
  ELSE LET m == MatchFrom(atoms, 1, str, pos, [NoMatch EXCEPT !.from = pos])
       IN IF m.ok THEN m ELSE ExecFrom(atoms, str, pos + 1)

exec(regexp, str) == ExecFrom(regexp.atoms, str, 1)

\* The file minecraft-version-file: readable with a content, missing
\* (ENOENT), or unreadable (EACCES).
ReadableFile(content) == [error |-> "none", content |-> content]
MissingFile == [error |-> "ENOENT", content |-> <<>>]
UnreadableFile == [error |-> "EACCES", content |-> <<>>]

\* Mutant of guessCurrentMinecraftVersionFromFile: matches[0] is returned.
guess_WholeMatch(file, regexp) ==
  IF file.error = "ENOENT" THEN ReturnedUndefined
  ELSE IF file.error # "none" THEN Threw(file.error)
  ELSE LET patternMatch == PatternMatch(regexp)
       IN IF ~patternMatch.ok THEN Threw("FormatError")
          ELSE LET re == RegExp(patternMatch.pattern, patternMatch.flags)
               IN IF ~re.ok THEN Threw("SyntaxError")
                  ELSE LET matches == exec(re, file.content)
                       IN IF ~matches.ok THEN ReturnedUndefined
                          ELSE ReturnedString(SubSeq(file.content, matches.from,
                                                     matches.to - 1))

\* main.mjs:300-328
guessCurrentMinecraftVersionFromFile(file, regexp) ==
  IF file.error = "ENOENT" THEN ReturnedUndefined
  ELSE IF file.error # "none" THEN Threw(file.error)
  ELSE LET patternMatch == PatternMatch(regexp)
       IN IF ~patternMatch.ok THEN Threw("FormatError")
          ELSE LET re == RegExp(patternMatch.pattern, patternMatch.flags)
               IN IF ~re.ok THEN Threw("SyntaxError")
                  ELSE LET matches == exec(re, file.content)
                       IN IF ~matches.ok THEN ReturnedUndefined
                          ELSE IF ~matches.captured THEN ReturnedUndefined
                          ELSE ReturnedString(SubSeq(file.content, matches.gfrom,
                                                     matches.gto - 1))

(***************************** the state **********************************)
VARIABLES
  requested,        \* minecraftVersions, the argument of downloadAssets
  mainpc,           \* where downloadAssets stands (the await it is suspended at)
  vi,               \* getAssetIndices: position of the version being resolved
  assetIndices,     \* getAssetIndices: Object.values(assetIndices)
  ai,               \* downloadAssets: position of the asset index in process
  objects,          \* downloadAssets: the deduplicated objects of that index
  bi,               \* downloadAssets: i, the start of the current chunk
  downloadedFiles,  \* downloadAssets: counter of the current index
  runError,         \* the error downloadAssets rejected with
  dl,               \* the downloadIfChanged calls of the current index:
                    \* 0 is the index file, t >= 1 is objects[t]
  fs,               \* the files below assetsFolder: path -> content
  dirs,             \* the directories that exist
  loaded,           \* history: ids of the indices whose processing began
  fetched,          \* history: downloadIfChanged issued a GET in this run
  writes,           \* history: how often each path was opened for writing
                    \* in this run
  calls,            \* history: the downloadIfChanged calls made for objects
                    \* in this run, counted by asset index id and hash
  prevOk,           \* history: the previous invocation completed without error
  reports,          \* the "Downloaded n, reused m" lines of this run, one for
                    \* each asset index processed (main.mjs:116-118)
  begun,            \* history: whether the invocation before this one
                    \* failed, and the paths it had written
  runpc,            \* where run() stands
  saved,            \* run: the saveCache calls made
  restoredCacheKey, \* run: what restoreCache returned
  versionFile,      \* the content of minecraft-version-file
  versionRegexp,    \* the input minecraft-version-regexp
  guessed           \* what guessCurrentMinecraftVersionFromFile returned

\* The state of run() and of guessCurrentMinecraftVersionFromFile, which the
\* steps of downloadAssets leave alone.
outer == <<runpc, saved, restoredCacheKey, versionFile, versionRegexp, guessed>>

vars == <<requested, mainpc, vi, assetIndices, ai, objects, bi,
          downloadedFiles, runError, dl, fs, dirs, loaded, fetched, writes,
          calls, prevOk, reports, begun, outer>>

Versions == {"v1", "v2", "v3", "v4", "vX"}

RECURSIVE SeqsUpTo(_, _)
SeqsUpTo(S, n) ==
  IF n = 0 THEN {<<>>}
  ELSE LET shorter == SeqsUpTo(S, n - 1)
       IN shorter \cup {Append(s, x) : s \in shorter, x \in S}

Exists(p) == p \in DOMAIN fs
Content(p) == IF Exists(p) THEN fs[p] ELSE NoFile

\* The local file conditions a run can start from: absent, intact, one byte
\* changed, one byte short.
Conditions(content) ==
  {NoFile, content, Corrupted(content), Truncated(content)}

\* The files a run can find below assetsFolder when it starts (what earlier
\* runs or a restored cache left there): nothing, or the index file of id A
\* with the file of object 1 in any condition and the file of object 2
\* absent or intact.
Intact == (assetIndexPath("A") :> DocA1)
          @@ (objectPath(ObjectEntry(1).hash) :> ObjectBlob(1))
          @@ (objectPath(ObjectEntry(2).hash) :> ObjectBlob(2))

InitialStores ==
  {[p \in {q \in DOMAIN Intact : c[q] # NoFile} |-> c[p]] :
     c \in {f \in [DOMAIN Intact -> UNION {Conditions(Intact[q]) : q \in DOMAIN Intact}] :
              /\ f[assetIndexPath("A")] \in {NoFile, DocA1}
              /\ f[assetIndexPath("A")] = NoFile =>
                   \A q \in DOMAIN Intact : f[q] = NoFile
              /\ f[objectPath(ObjectEntry(1).hash)] \in Conditions(ObjectBlob(1))
              /\ f[objectPath(ObjectEntry(2).hash)] \in {NoFile, ObjectBlob(2)}}}

DirsOf(store) == UNION {Ancestors(dirname(p)) : p \in DOMAIN store}

(************************ downloadIfChanged *******************************)
\* A call of downloadIfChanged that has just been made: it runs up to its
\* first await, the stat of the local path.
NewTask ==
  [pc |-> "stat", result |-> FALSE, retries |-> 0, lastError |-> "undefined",
   buffer |-> undefined, gets |-> 0, error |-> "none"]

NoTasks == [t \in {} |-> NewTask]

\* A call that has returned: its local variables are gone.
Returned(result) == [NewTask EXCEPT !.pc = "returned", !.result = result]

\* A call that has thrown: the error is what is left of it.
Thrown(error) == [NewTask EXCEPT !.pc = "thrown", !.error = error]

\* The arguments of call t (main.mjs:75-81 and 100-109).
TaskArgs(t) ==
  IF t = 0
  THEN [localPath |-> assetIndexPath(assetIndices[ai].id),
        url |-> assetIndices[ai].url,
        checksum |-> assetIndices[ai].sha1,
        size |-> assetIndices[ai].size]
  ELSE [localPath |-> objectPath(objects[t].hash),
        url |-> objectUrl(objects[t].hash),
        checksum |-> objects[t].hash,
        size |-> objects[t].size]

\* Mutants of UpToDate: the size compared the wrong way round, and the
\* checksum not compared.
UpToDate_SizeGreater(localPath, checksum, size) ==
  /\ Exists(localPath)
  /\ Len(fs[localPath]) > size
  /\ createHash(fs[localPath]) = checksum

UpToDate_SizeOnly(localPath, checksum, size) ==
  /\ Exists(localPath)
  /\ Len(fs[localPath]) = size

\* main.mjs:195-208: the local file exists with the expected size and checksum.
UpToDate(localPath, checksum, size) ==
  /\ Exists(localPath)
  /\ Len(fs[localPath]) = size
  /\ createHash(fs[localPath]) = checksum

\* Mutant of MayRetry: one GET too many.
MayRetry_Inclusive(retries) == retries <= maxDownloadRetries

\* main.mjs:213: the loop condition retries++ < maxDownloadRetries, on the
\* value of retries before the increment.
MayRetry(retries) == retries < maxDownloadRetries

\* Mutant of CheckResponse: the checksum of the body is not compared.
CheckResponse_NoChecksum(res, checksum, size) ==
  IF res.ok
  THEN IF Len(res.body) # size THEN "size" ELSE "undefined"
  ELSE "http"

\* main.mjs:215-231: the lastError one response leaves.
CheckResponse(res, checksum, size) ==
  IF res.ok
  THEN IF Len(res.body) # size THEN "size"
       ELSE IF createHash(res.body) # checksum THEN "checksum"
       ELSE "undefined"
  ELSE "http"

\* main.mjs:234: if (lastError)
Truthy(lastError) == lastError # "undefined"

Settled(t) == dl[t].pc \in {"returned", "thrown"}
InFlight == {t \in DOMAIN dl : ~Settled(t)}

\* Mutant of Reject: the failure stays with the object, downloadAssets does
\* not reject.
Reject_Isolated(t, error) ==
  /\ dl' = [dl EXCEPT ![t] = Thrown(error)]
  /\ UNCHANGED <<mainpc, runError>>

\* A rejection of call t reaches downloadAssets, which awaits it (directly or
\* through Promise.all), unless downloadAssets has already rejected.
Reject(t, error) ==
  /\ dl' = [dl EXCEPT ![t] = Thrown(error)]
  /\ IF mainpc \in {"indexDownload", "batch"}
     THEN mainpc' = "failed" /\ runError' = error
     ELSE UNCHANGED <<mainpc, runError>>

\* main.mjs:213-214 and 234-236: the loop condition is evaluated with the
\* locals as given: the next GET is issued, or the loop ends and the call
\* throws if lastError is set.
LoopHead(t, lastError, buffer) ==
  IF MayRetry(dl[t].retries)
  THEN /\ dl' = [dl EXCEPT ![t].pc = "fetch", ![t].retries = @ + 1,
                           ![t].gets = @ + 1, ![t].lastError = lastError,
                           ![t].buffer = buffer]
       /\ fetched' = TRUE
       /\ UNCHANGED <<mainpc, runError>>
  ELSE /\ fetched' = fetched
       /\ IF Truthy(lastError)
          THEN Reject(t, "DownloadFailed")
          ELSE /\ dl' = [dl EXCEPT ![t].pc = "mkdir", ![t].retries = @ + 1,
                                   ![t].lastError = lastError,
                                   ![t].buffer = buffer]
               /\ UNCHANGED <<mainpc, runError>>

\* Mutant of Stat: the parent directory is made before the download.
Stat_MkdirFirst(t) ==
  /\ t \in DOMAIN dl /\ dl[t].pc = "stat"
  /\ IF UpToDate(TaskArgs(t).localPath, TaskArgs(t).checksum, TaskArgs(t).size)
     THEN /\ dl' = [dl EXCEPT ![t] = Returned(FALSE)]
          /\ UNCHANGED <<mainpc, runError, fetched, dirs>>
     ELSE /\ LoopHead(t, dl[t].lastError, dl[t].buffer)
          /\ dirs' = dirs \cup Ancestors(dirname(TaskArgs(t).localPath))
  /\ UNCHANGED <<requested, vi, assetIndices, ai, objects, bi,
                 downloadedFiles, fs, loaded, writes, calls, prevOk, reports,
                 begun, outer>>

\* main.mjs:195-214: stat and checksum of the local file; the call returns
\* false or issues its first GET.
Stat(t) ==
  /\ t \in DOMAIN dl /\ dl[t].pc = "stat"
  /\ IF UpToDate(TaskArgs(t).localPath, TaskArgs(t).checksum, TaskArgs(t).size)
     THEN /\ dl' = [dl EXCEPT ![t] = Returned(FALSE)]
          /\ UNCHANGED <<mainpc, runError, fetched>>
     ELSE LoopHead(t, dl[t].lastError, dl[t].buffer)
  /\ UNCHANGED <<requested, vi, assetIndices, ai, objects, bi,
                 downloadedFiles, fs, dirs, loaded, writes, calls, prevOk, reports, begun, outer>>

\* main.mjs:214-236: the response of the GET arrives.  An accepted response
\* leaves the loop; after any other the call sleeps and evaluates the loop
\* condition again (the delay is no step of its own: the call reads nothing
\* but its own locals when it wakes up).
FetchResponse(t) ==
  /\ t \in DOMAIN dl /\ dl[t].pc = "fetch"
  /\ \E res \in Responses(TaskArgs(t).url) :
       LET e == CheckResponse(res, TaskArgs(t).checksum, TaskArgs(t).size)
           b == IF res.ok THEN res.body ELSE dl[t].buffer
       IN IF Truthy(e)
          THEN LoopHead(t, e, b)
          ELSE /\ dl' = [dl EXCEPT ![t].pc = "mkdir", ![t].lastError = e,
                                   ![t].buffer = b]
               /\ UNCHANGED <<mainpc, runError, fetched>>
  /\ UNCHANGED <<requested, vi, assetIndices, ai, objects, bi,
                 downloadedFiles, fs, dirs, loaded, writes, calls, prevOk, reports, begun, outer>>

\* Mutant of FetchRejects: a transport error is retried like a response that
\* is not accepted.
FetchRejects_Retried(t) ==
  /\ t \in DOMAIN dl /\ dl[t].pc = "fetch"
  /\ LoopHead(t, "transport", dl[t].buffer)
  /\ UNCHANGED <<requested, vi, assetIndices, ai, objects, bi,
                 downloadedFiles, fs, dirs, loaded, writes, calls, prevOk,
                 reports, begun, outer>>

\* main.mjs:214: fetch rejects (no response: a transport error).
FetchRejects(t) ==
  /\ t \in DOMAIN dl /\ dl[t].pc = "fetch"
  /\ Reject(t, "FetchError")
  /\ UNCHANGED <<requested, vi, assetIndices, ai, objects, bi,
                 downloadedFiles, fs, dirs, loaded, fetched, writes, calls, prevOk, reports, begun, outer>>

\* main.mjs:197-202, 206, 239: stat fails with another code than ENOENT, the
\* file cannot be read for its checksum, or mkdir fails: the call throws the
\* error, the disk is as it was.
IoRejects(t) ==
  /\ t \in DOMAIN dl /\ dl[t].pc \in {"stat", "mkdir"}
  /\ Reject(t, "IOError")
  /\ UNCHANGED <<requested, vi, assetIndices, ai, objects, bi,
                 downloadedFiles, fs, dirs, loaded, fetched, writes, calls,
                 prevOk, reports, begun, outer>>

WriteCount(p) == IF p \in DOMAIN writes THEN writes[p] ELSE 0
Written(p) == (p :> WriteCount(p) + 1) @@ writes

\* main.mjs:238-239
Mkdir(t) ==
  /\ t \in DOMAIN dl /\ dl[t].pc = "mkdir"
  /\ dirs' = dirs \cup Ancestors(dirname(TaskArgs(t).localPath))
  /\ dl' = [dl EXCEPT ![t].pc = "writeFile"]
  /\ UNCHANGED <<requested, mainpc, vi, assetIndices, ai, objects, bi,
                 downloadedFiles, runError, fs, loaded, fetched, writes, calls, prevOk, reports, begun, outer>>

\* main.mjs:240: writeFile opens the path (flag "w"): the file is created
\* or truncated.
WriteFileOpen(t) ==
  /\ t \in DOMAIN dl /\ dl[t].pc = "writeFile"
  /\ fs' = (TaskArgs(t).localPath :> <<>>) @@ fs
  /\ writes' = Written(TaskArgs(t).localPath)
  /\ dl' = [dl EXCEPT ![t].pc = "writing"]
  /\ UNCHANGED <<requested, mainpc, vi, assetIndices, ai, objects, bi,
                 downloadedFiles, runError, dirs, loaded, fetched, calls,
                 prevOk, reports, begun, outer>>

\* main.mjs:240-241: the buffer is written and the call returns true.
WriteFileDone(t) ==
  /\ t \in DOMAIN dl /\ dl[t].pc = "writing"
  /\ fs' = (TaskArgs(t).localPath :> dl[t].buffer) @@ fs
  /\ dl' = [dl EXCEPT ![t] = Returned(TRUE)]
  /\ UNCHANGED <<requested, mainpc, vi, assetIndices, ai, objects, bi,
                 downloadedFiles, runError, dirs, loaded, fetched, writes, calls, prevOk, reports, begun, outer>>

(************************** getAssetIndices *******************************)
\* main.mjs:251-256: the manifest lists the version (with a url).
VersionKnown(version) == version \in indexManifest

\* Mutant of PutAssetIndex: a list of the indices instead of a map by id.
PutAssetIndex_Append(indices, assetIndex) == Append(indices, assetIndex)

\* main.mjs:260: assetIndices[assetIndex.id] = assetIndex, on the list of the
\* values in key order (a key keeps the place of its first insertion).
PutAssetIndex(indices, assetIndex) ==
  IF \E k \in DOMAIN indices : indices[k].id = assetIndex.id
  THEN [k \in DOMAIN indices |->
          IF indices[k].id = assetIndex.id THEN assetIndex ELSE indices[k]]
  ELSE Append(indices, assetIndex)

(**************************** downloadAssets ******************************)
\* Mutant of DedupeObjects: the objects are not deduplicated.
DedupeObjects_None(entries) == entries

\* main.mjs:84-91: Object.values(Object.fromEntries(entries by hash)): one
\* object per hash, in the order of the first occurrence of each hash, with
\* the value of its last occurrence.
RECURSIVE DedupeObjects(_)
DedupeObjects(entries) ==
  IF entries = <<>> THEN <<>>
  ELSE LET init == DedupeObjects(SubSeq(entries, 1, Len(entries) - 1))
           last == entries[Len(entries)]
       IN IF \E k \in DOMAIN init : init[k].hash = last.hash
          THEN [k \in DOMAIN init |->
                  IF init[k].hash = last.hash THEN last ELSE init[k]]
          ELSE Append(init, last)

\* Mutant of Chunk: slice(i), the rest of the objects.
Chunk_Rest(objs, i) == (i + 1)..Len(objs)

\* main.mjs:98: objects.slice(i, i + maxConcurrency), as positions of objects.
Chunk(objs, i) == (i + 1)..Min(i + maxConcurrency, Len(objs))

\* main.mjs:69-81: the loop over the asset indices reaches entry k: the index
\* file is downloaded if changed; after the last entry the folder size is
\* computed (main.mjs:122-124).
EnterIndex(indices, k) ==
  /\ assetIndices' = indices
  /\ ai' = k
  /\ objects' = <<>>
  /\ bi' = 0
  /\ downloadedFiles' = 0
  /\ IF k <= Len(indices)
     THEN /\ mainpc' = "indexDownload"
          /\ dl' = [t \in {0} |-> NewTask]
          /\ loaded' = Append(loaded, indices[k].id)
     ELSE /\ mainpc' = "folderSize"
          /\ dl' = NoTasks
          /\ loaded' = loaded

\* Mutant of EnterVersion: the loop ends at a version the manifest does not
\* list, and the indices resolved so far are returned.
EnterVersion_ReturnPartial(indices, i) ==
  IF i > Len(requested) \/ ~VersionKnown(requested[i])
  THEN /\ EnterIndex(indices, 1)
       /\ UNCHANGED <<vi, runError>>
  ELSE /\ vi' = i
       /\ assetIndices' = indices
       /\ mainpc' = "versionMeta" /\ runError' = runError
       /\ UNCHANGED <<ai, objects, bi, downloadedFiles, dl, loaded>>

\* main.mjs:250-262: the loop over the versions reaches entry i.
EnterVersion(indices, i) ==
  IF i > Len(requested)
  THEN /\ EnterIndex(indices, 1)
       /\ UNCHANGED <<vi, runError>>
  ELSE /\ vi' = i
       /\ assetIndices' = indices
       /\ IF VersionKnown(requested[i])
          THEN mainpc' = "versionMeta" /\ runError' = runError
          ELSE mainpc' = "failed" /\ runError' = "VersionNotFound"
       /\ UNCHANGED <<ai, objects, bi, downloadedFiles, dl, loaded>>

\* The process has come to rest: downloadAssets has returned or rejected and
\* no call of downloadIfChanged is outstanding.
AtRest == mainpc \in {"idle", "done", "failed"} /\ InFlight = {}

\* main.mjs:61-66 (and 49): downloadAssets is called; it awaits the version
\* manifest (main.mjs:245).
CallDownloadAssets ==
  /\ prevOk' = (mainpc = "done")
  /\ begun' = [prevFailed |-> mainpc = "failed",
               prevWritten |-> IF mainpc = "failed" THEN DOMAIN writes ELSE {}]
  /\ mainpc' = "manifest"
  /\ vi' = 0 /\ assetIndices' = <<>> /\ ai' = 0 /\ objects' = <<>> /\ bi' = 0
  /\ downloadedFiles' = 0
  /\ runError' = "none"
  /\ dl' = NoTasks
  /\ loaded' = <<>> /\ fetched' = FALSE /\ writes' = <<>> /\ calls' = <<>>
  /\ reports' = <<>>
  /\ UNCHANGED <<fs, dirs>>

\* downloadAssets is called on its own (it is exported), on the same versions
\* and assets folder as the invocation before.
StartRun ==
  /\ AtRest
  /\ CallDownloadAssets
  /\ UNCHANGED <<requested, outer>>

\* main.mjs:245-250 (downloadJson 265-272): the manifest arrives.
ManifestResponse ==
  /\ mainpc = "manifest"
  /\ EnterVersion(<<>>, 1)
  /\ UNCHANGED <<requested, fs, dirs, fetched, writes, calls, prevOk, reports, begun, outer>>

\* main.mjs:265-275: downloadJson throws (fetch rejects, the status is not a
\* success, or the body is no JSON).
DownloadJsonFails ==
  /\ mainpc \in {"manifest", "versionMeta"}
  /\ mainpc' = "failed"
  /\ runError' = "RemoteFetchError"
  /\ UNCHANGED <<requested, vi, assetIndices, ai, objects, bi,
                 downloadedFiles, dl, fs, dirs, loaded, fetched, writes, calls, prevOk, reports, begun, outer>>

\* main.mjs:259-261: the metadata of version vi arrives.
VersionMetaResponse ==
  /\ mainpc = "versionMeta"
  /\ EnterVersion(PutAssetIndex(assetIndices, VersionMeta(requested[vi])), vi + 1)
  /\ UNCHANGED <<requested, fs, dirs, fetched, writes, calls, prevOk, reports, begun, outer>>

\* main.mjs:75-87: downloadIfChanged of the index file has returned; the file
\* is read.
IndexDownloaded ==
  /\ mainpc = "indexDownload"
  /\ dl[0].pc = "returned"
  /\ mainpc' = "readIndex"
  /\ UNCHANGED <<requested, vi, assetIndices, ai, objects, bi,
                 downloadedFiles, runError, dl, fs, dirs, loaded, fetched,
                 writes, calls, prevOk, reports, begun, outer>>

\* The calls with those of the chunk at i added.
CallKey(objs, t) == [id |-> assetIndices[ai].id, hash |-> objs[t].hash]
CallCount(key) == IF key \in DOMAIN calls THEN calls[key] ELSE 0
Called(objs, i) ==
  [key \in DOMAIN calls \cup {CallKey(objs, t) : t \in Chunk(objs, i)} |->
     CallCount(key) + Cardinality({t \in Chunk(objs, i) : CallKey(objs, t) = key})]

\* Mutant of Report: every object is reported as reused.
Report_ReusedTotal(id, count, total) ==
  [id |-> id, downloaded |-> count, reused |-> total]

\* main.mjs:116-118: "Downloaded n, reused m".
Report(id, count, total) ==
  [id |-> id, downloaded |-> count, reused |-> total - count]

\* main.mjs:97-118: the chunk at i is started, every download of it at once;
\* after the last chunk the counts are reported and the loop goes on to the
\* next asset index.
EnterChunk(objs, i, count) ==
  IF i < Len(objs)
  THEN /\ mainpc' = "batch"
       /\ bi' = i
       /\ objects' = objs
       /\ downloadedFiles' = count
       /\ dl' = [t \in (DOMAIN dl \ {0}) \cup Chunk(objs, i) |->
                   IF t \in Chunk(objs, i) THEN NewTask ELSE dl[t]]
       /\ calls' = Called(objs, i)
       /\ UNCHANGED <<assetIndices, ai, loaded, reports>>
  ELSE /\ EnterIndex(assetIndices, ai + 1)
       /\ calls' = calls
       /\ reports' = Append(reports, Report(assetIndices[ai].id, count, Len(objs)))

\* main.mjs:84-98: the index file has been read; it is parsed and its objects
\* are deduplicated.
ReadIndex ==
  /\ mainpc = "readIndex"
  /\ LET parsed == JsonObjects(Content(assetIndexPath(assetIndices[ai].id)))
     IN IF ~parsed.ok
        THEN /\ mainpc' = "failed"
             /\ runError' = "ManifestParseError"
             /\ UNCHANGED <<assetIndices, ai, objects, bi, downloadedFiles, dl,
                            loaded, calls, reports>>
        ELSE /\ EnterChunk(DedupeObjects(parsed.values), 0, 0)
             /\ runError' = runError
  /\ UNCHANGED <<requested, vi, fs, dirs, fetched, writes, prevOk, begun, outer>>

\* main.mjs:99: Promise.all resolves when every download of the chunk has
\* returned.
AllReturned(chunk) == \A t \in chunk : dl[t].pc = "returned"

\* main.mjs:99-115: Promise.all has resolved; the downloaded objects are
\* counted and the loop goes on.
ChunkDone ==
  /\ mainpc = "batch"
  /\ AllReturned(Chunk(objects, bi))
  /\ EnterChunk(objects, bi + maxConcurrency,
                downloadedFiles
                  + Cardinality({t \in Chunk(objects, bi) : dl[t].result}))
  /\ UNCHANGED <<requested, vi, runError, fs, dirs, fetched, writes, prevOk,
                 begun, outer>>

\* main.mjs:122-124 (getFolderSize 133-146): readdir of the assets folder.
FolderSize ==
  /\ mainpc = "folderSize"
  /\ IF <<assetsFolder>> \in dirs
     THEN mainpc' = "done" /\ runError' = runError
     ELSE mainpc' = "failed" /\ runError' = "IOError"
  /\ UNCHANGED <<requested, vi, assetIndices, ai, objects, bi,
                 downloadedFiles, dl, fs, dirs, loaded, fetched, writes, calls, prevOk, reports, begun, outer>>

\* No invocation of downloadAssets has been made.
NotBegun == [prevFailed |-> FALSE, prevWritten |-> {}]

\* downloadAssets is called on its own: run() does not take part.
OuterIdle ==
  /\ runpc = "none" /\ saved = 0 /\ restoredCacheKey = <<>>
  /\ versionFile = MissingFile /\ versionRegexp = <<>> /\ guessed = NotCalled

Init ==
  /\ requested \in {r \in SeqsUpTo(Versions, MaxVersions) : NoDuplicates(r)}
  /\ fs \in InitialStores
  /\ dirs = DirsOf(fs)
  /\ mainpc = "idle"
  /\ vi = 0 /\ assetIndices = <<>> /\ ai = 0 /\ objects = <<>> /\ bi = 0
  /\ downloadedFiles = 0
  /\ runError = "none"
  /\ dl = NoTasks
  /\ loaded = <<>> /\ fetched = FALSE /\ writes = <<>> /\ calls = <<>>
  /\ prevOk = FALSE
  /\ reports = <<>>
  /\ begun = NotBegun
  /\ OuterIdle

\* The steps of the downloadIfChanged calls in flight.
StatDone == \E t \in DOMAIN dl : Stat(t)
ResponseArrives == \E t \in DOMAIN dl : FetchResponse(t)
FetchFails == \E t \in DOMAIN dl : FetchRejects(t)
IoFails == \E t \in DOMAIN dl : IoRejects(t)
MkdirDone == \E t \in DOMAIN dl : Mkdir(t)
FileOpened == \E t \in DOMAIN dl : WriteFileOpen(t)
FileWritten == \E t \in DOMAIN dl : WriteFileDone(t)

Next ==
  \/ StartRun
  \/ ManifestResponse
  \/ DownloadJsonFails
  \/ VersionMetaResponse
  \/ IndexDownloaded
  \/ ReadIndex
  \/ ChunkDone
  \/ FolderSize
  \/ StatDone
  \/ ResponseArrives
  \/ FetchFails
  \/ IoFails
  \/ MkdirDone
  \/ FileOpened
  \/ FileWritten

Spec == Init /\ [][Next]_vars

\* The stores a run on the large asset index (alone, or followed by a second
\* index) starts from: the index file and
\* the objects are in place, but for the first two and the last object,
\* which may be absent.
BigStores ==
  {[p \in {assetIndexPath("Big")}
          \cup {objectPath(ObjectEntry(k).hash) : k \in (1..BigObjects) \ absent} |->
      IF p = assetIndexPath("Big") THEN DocBig
      ELSE Origin([kind |-> "object", name |-> <<p[3], p[4]>>])] :
     absent \in SUBSET {1, 2, BigObjects}}

InitBatch ==
  /\ requested \in {<<"vBig">>, <<"vBig", "v4">>}
  /\ fs \in BigStores
  /\ dirs = DirsOf(fs)
  /\ mainpc = "idle"
  /\ vi = 0 /\ assetIndices = <<>> /\ ai = 0 /\ objects = <<>> /\ bi = 0
  /\ downloadedFiles = 0
  /\ runError = "none"
  /\ dl = NoTasks
  /\ loaded = <<>> /\ fetched = FALSE /\ writes = <<>> /\ calls = <<>>
  /\ prevOk = FALSE
  /\ reports = <<>>
  /\ begun = NotBegun
  /\ OuterIdle

SpecBatch == InitBatch /\ [][Next]_vars

(************ the inputs of guessCurrentMinecraftVersionFromFile **********)
Files ==
  {MissingFile, UnreadableFile}
  \cup {ReadableFile(content) : content \in SeqsUpTo(FileChars, MaxFileChars)}

\* The values of minecraft-version-regexp: a pattern between slashes with
\* flags (none, "g", or the letter "z" that is no flag), or without the
\* slashes, or with a slash inside.
FlagTexts == {<<>>, <<"g">>, <<"z">>}

Regexps ==
  {str \in SeqsUpTo(PatternChars, MaxPatternChars)
          \cup {<<"/">> \o pattern \o <<"/">> \o flags :
                  pattern \in SeqsUpTo(PatternChars, MaxPatternChars),
                  flags \in FlagTexts}
          \cup {<<"/">> \o left \o <<"/">> \o right \o <<"/">> :
                  left \in SeqsUpTo({"a"}, 1), right \in SeqsUpTo({"a"}, 1)} :
     PatternMatch(str).ok => Covered(PatternMatch(str).pattern)}

\* No invocation of downloadAssets or run() takes part.
SyncIdle ==
  /\ requested = <<>>
  /\ fs = <<>> /\ dirs = {}
  /\ mainpc = "idle"
  /\ vi = 0 /\ assetIndices = <<>> /\ ai = 0 /\ objects = <<>> /\ bi = 0
  /\ downloadedFiles = 0
  /\ runError = "none"
  /\ dl = NoTasks
  /\ loaded = <<>> /\ fetched = FALSE /\ writes = <<>> /\ calls = <<>>
  /\ prevOk = FALSE
  /\ reports = <<>>
  /\ begun = NotBegun

InitGuess ==
  /\ SyncIdle
  /\ runpc = "none" /\ saved = 0 /\ restoredCacheKey = <<>>
  /\ versionFile \in Files
  /\ versionRegexp \in Regexps
  /\ guessed = NotCalled

\* main.mjs:300-328: the function is called on the file and the regexp.
GuessCalled ==
  /\ guessed.status = "none"
  /\ guessed' = guessCurrentMinecraftVersionFromFile(versionFile, versionRegexp)
  /\ UNCHANGED <<requested, mainpc, vi, assetIndices, ai, objects, bi,
                 downloadedFiles, runError, dl, fs, dirs, loaded, fetched,
                 writes, calls, prevOk, reports, begun, runpc, saved,
                 restoredCacheKey, versionFile, versionRegexp>>

NextGuess == GuessCalled

SpecGuess == InitGuess /\ [][NextGuess]_vars


(******************************** run() ***********************************)
\* The state of downloadAssets and its calls, which the steps of run() before
\* and after the call of downloadAssets leave alone.
sync == <<mainpc, vi, assetIndices, ai, objects, bi, downloadedFiles,
          runError, dl, loaded, fetched, writes, calls, prevOk, reports, begun>>

\* main.mjs:154-158: the digest of the versions joined by line feeds (an
\* injective digest: the joined text, tagged).
RECURSIVE JoinLines(_)
JoinLines(versions) ==
  IF versions = <<>> THEN <<>>
  ELSE IF Len(versions) = 1 THEN versions
  ELSE <<Head(versions), "\n">> \o JoinLines(Tail(versions))

hashMinecraftVersions(versions) == <<"md5">> \o JoinLines(versions)

\* main.mjs:12 and 32
cacheKeyPrefix == <<"cache-">>
cacheKey(versions) == cacheKeyPrefix \o hashMinecraftVersions(versions)

\* restoreCache found no entry.
NoKey == <<>>

\* The version lists the cache service may hold an entry for (under the
\* prefix), besides the one of this run.
CachedLists == {<<"v1">>, <<"v1", "v4">>}

\* The string of a sequence of characters.
RECURSIVE Join(_)
Join(chars) == IF chars = <<>> THEN "" ELSE Head(chars) \o Join(Tail(chars))

\* No minecraft-version-file is configured.
NoFileInput == [error |-> "unset", content |-> <<>>]

\* The inputs minecraft-version-file and minecraft-version-regexp of a run:
\* not configured, a missing file, a file that yields a known or an unknown
\* version, an empty capture, and a regexp that is not of the form
\* /regexp/flags.
ScrapeInputs ==
  {<<NoFileInput, <<>>>>,
   <<MissingFile, <<"/", "(", ".", "+", ")", "/">>>>,
   <<ReadableFile(<<"v", "4">>), <<"/", "(", ".", "+", ")", "/">>>>,
   <<ReadableFile(<<"v", "X">>), <<"/", "(", ".", "+", ")", "/">>>>,
   <<ReadableFile(<<"v", "4">>), <<"/", "(", ")", "/">>>>,
   <<ReadableFile(<<"v", "4">>), <<"(", ".", "+", ")">>>>}

\* The configured minecraft-versions of a run.
ConfiguredVersions == {<<>>, <<"v1">>}

InitRun ==
  /\ requested \in ConfiguredVersions
  /\ fs = <<>> /\ dirs = {}
  /\ mainpc = "idle"
  /\ vi = 0 /\ assetIndices = <<>> /\ ai = 0 /\ objects = <<>> /\ bi = 0
  /\ downloadedFiles = 0
  /\ runError = "none"
  /\ dl = NoTasks
  /\ loaded = <<>> /\ fetched = FALSE /\ writes = <<>> /\ calls = <<>>
  /\ prevOk = FALSE
  /\ reports = <<>>
  /\ begun = NotBegun
  /\ runpc = "start" /\ saved = 0 /\ restoredCacheKey = NoKey
  /\ \E input \in ScrapeInputs : versionFile = input[1] /\ versionRegexp = input[2]
  /\ guessed = NotCalled

\* main.mjs:32-38: the cache key is computed; without the cache feature run
\* returns, otherwise it awaits restoreCache.
AfterGuess(versions) ==
  /\ requested' = versions
  /\ \E isFeatureAvailable \in BOOLEAN :
       runpc' = IF isFeatureAvailable THEN "restoreCache" ELSE "unavailable"

\* main.mjs:11-30: run is called; with a version file and regexp configured
\* it awaits guessCurrentMinecraftVersionFromFile.
RunCalled ==
  /\ runpc = "start"
  /\ IF versionFile # NoFileInput /\ versionRegexp # <<>>
     THEN runpc' = "guess" /\ requested' = requested
     ELSE AfterGuess(requested)
  /\ UNCHANGED <<sync, fs, dirs, saved, restoredCacheKey, versionFile,
                 versionRegexp, guessed>>

\* main.mjs:20-38: the guess returns: a version that is not empty is added to
\* the versions; if it throws, run rejects.
GuessReturns ==
  /\ runpc = "guess"
  /\ guessed' = guessCurrentMinecraftVersionFromFile(versionFile, versionRegexp)
  /\ IF guessed'.status # "returned"
     THEN runpc' = "failed" /\ requested' = requested
     ELSE AfterGuess(IF guessed'.defined /\ guessed'.value # <<>>
                     THEN Append(requested, Join(guessed'.value))
                     ELSE requested)
  /\ UNCHANGED <<sync, fs, dirs, saved, restoredCacheKey, versionFile,
                 versionRegexp>>

\* main.mjs:39-41: restoreCache has looked up the key and the prefix: it found
\* nothing, or it extracted the assets folder of the entry it found.
CacheRestored ==
  /\ runpc = "restoreCache"
  /\ \E key \in {NoKey, cacheKey(requested)} \cup {cacheKey(r) : r \in CachedLists} :
       /\ restoredCacheKey' = key
       /\ IF key = NoKey THEN UNCHANGED <<fs, dirs>>
          ELSE fs' \in InitialStores /\ dirs' = DirsOf(fs')
  /\ runpc' = "restored"
  /\ UNCHANGED <<requested, sync, saved, versionFile, versionRegexp, guessed>>

\* main.mjs:39-49: restoreCache returns; with the exact key run returns,
\* otherwise it calls downloadAssets.
RestoreCacheReturns ==
  /\ runpc = "restored"
  /\ IF restoredCacheKey = cacheKey(requested)
     THEN runpc' = "upToDate" /\ UNCHANGED <<sync, fs, dirs>>
     ELSE runpc' = "sync" /\ CallDownloadAssets
  /\ UNCHANGED <<requested, saved, restoredCacheKey, versionFile,
                 versionRegexp, guessed>>

\* main.mjs:49-51: downloadAssets has returned; saveCache is called.
SyncReturns ==
  /\ runpc = "sync" /\ mainpc = "done"
  /\ runpc' = "saveCache" /\ saved' = saved + 1
  /\ UNCHANGED <<requested, sync, fs, dirs, restoredCacheKey, versionFile,
                 versionRegexp, guessed>>

\* Mutant of SyncRejects: the cache is saved although the sync failed.
SyncRejects_Saves ==
  /\ runpc = "sync" /\ mainpc = "failed"
  /\ runpc' = "saveCache" /\ saved' = saved + 1
  /\ UNCHANGED <<requested, sync, fs, dirs, restoredCacheKey, versionFile,
                 versionRegexp, guessed>>

\* main.mjs:49 and the catch of run(): downloadAssets has rejected, run
\* rejects and setFailed is called.
SyncRejects ==
  /\ runpc = "sync" /\ mainpc = "failed"
  /\ runpc' = "failed"
  /\ UNCHANGED <<requested, sync, fs, dirs, saved, restoredCacheKey,
                 versionFile, versionRegexp, guessed>>

\* main.mjs:51-52: saveCache returns (run returns) or rejects (run rejects).
SaveCacheSettles ==
  /\ runpc = "saveCache"
  /\ runpc' \in {"saved", "failed"}
  /\ UNCHANGED <<requested, sync, fs, dirs, saved, restoredCacheKey,
                 versionFile, versionRegexp, guessed>>

NextRun ==
  \/ RunCalled
  \/ GuessReturns
  \/ CacheRestored
  \/ RestoreCacheReturns
  \/ SyncReturns
  \/ SyncRejects
  \/ SaveCacheSettles
  \/ ManifestResponse
  \/ DownloadJsonFails
  \/ VersionMetaResponse
  \/ IndexDownloaded
  \/ ReadIndex
  \/ ChunkDone
  \/ FolderSize
  \/ StatDone
  \/ ResponseArrives
  \/ FetchFails
  \/ IoFails
  \/ MkdirDone
  \/ FileOpened
  \/ FileWritten

SpecRun == InitRun /\ [][NextRun]_vars

(****************************** claims ************************************)
\* Call t ends in this step with an error of the file system (of stat, of
\* reading the file, of mkdir).
IoError(t) == dl'[t].pc = "thrown" /\ dl'[t].error = "IOError"

ExpectedBody(body, checksum, size) ==
  Len(body) = size /\ createHash(body) = checksum

Writing == {"mkdir", "writeFile", "writing"}

\* C1: every buffer downloadIfChanged writes (from the moment the retry loop
\* is left until writeFile is done) is a response body of the expected size
\* and checksum, and the file a call that returned true has written holds
\* such a body: no rejected response reaches the disk.
C1_OnlyVerifiedBodiesWritten ==
  \A t \in DOMAIN dl :
    /\ dl[t].pc \in Writing =>
         /\ dl[t].lastError = "undefined"
         /\ ExpectedBody(dl[t].buffer, TaskArgs(t).checksum, TaskArgs(t).size)
    /\ (dl[t].pc = "returned" /\ dl[t].result) =>
         ExpectedBody(Content(TaskArgs(t).localPath), TaskArgs(t).checksum,
                      TaskArgs(t).size)

\* C1 witness: a body is being written that was accepted after an earlier
\* response of the same call was rejected with a body kept in the buffer.
C1_Witness ==
  \E t \in DOMAIN dl : dl[t].pc = "writing" /\ dl[t].gets > 1 /\ t > 0

\* C2: a call issues at most maxDownloadRetries GETs; a response is rejected
\* only if it is not a success or its body has the wrong size or checksum,
\* and then another GET follows only while fewer than maxDownloadRetries were
\* issued; a call throws DownloadFailed only on the failure of GET number
\* maxDownloadRetries, and downloadAssets has then rejected; an accepted
\* response is written and the call returns true, unless the file system
\* fails.
C2_Step(t) ==
  /\ dl'[t].gets <= maxDownloadRetries
  /\ (dl[t].pc = "fetch" /\ dl'[t].pc = "fetch") =>
       /\ dl[t].gets < maxDownloadRetries
       /\ dl'[t].gets = dl[t].gets + 1
       /\ dl'[t].lastError \in {"http", "size", "checksum"}
       /\ dl'[t].lastError = "size" =>
            Len(dl'[t].buffer) # TaskArgs(t).size
       /\ dl'[t].lastError = "checksum" =>
            createHash(dl'[t].buffer) # TaskArgs(t).checksum
  /\ (dl[t].pc = "fetch" /\ dl'[t].pc = "mkdir") =>
       /\ dl'[t].gets = dl[t].gets
       /\ ExpectedBody(dl'[t].buffer, TaskArgs(t).checksum, TaskArgs(t).size)
  /\ (dl'[t].error = "DownloadFailed" /\ dl[t].error = "none") =>
       /\ dl[t].pc = "fetch"
       /\ dl[t].gets = maxDownloadRetries
       /\ mainpc' = "failed"
  /\ dl[t].pc \in Writing =>
       \/ dl'[t].pc \in Writing
       \/ dl'[t].pc = "returned" /\ dl'[t].result
       \/ IoError(t)

C2_RetryBudget ==
  [][\A t \in DOMAIN dl \cap DOMAIN dl' :
       (dl[t].pc \notin {"returned", "thrown"} /\ dl'[t] # dl[t])
         => C2_Step(t)]_vars

\* C2 witness: the last GET of the budget is accepted after
\* maxDownloadRetries - 1 failures.
C2_Witness ==
  \E t \in DOMAIN dl : dl[t].pc = "mkdir" /\ dl[t].gets = maxDownloadRetries

\* The objects the asset index of a version names.
ReferencedObjects(version) ==
  Range(JsonObjects(Origin(VersionMeta(version).url)).values)

Present(entry) ==
  ExpectedBody(Content(objectPath(entry.hash)), entry.hash, entry.size)

\* C3: after a run that completed without error, every object the asset
\* index of every requested version names is present under
\* objects/<hash[0:2]>/<hash> with its size and hash.
C3_AllReferencedObjectsPresent ==
  mainpc = "done" =>
    \A i \in DOMAIN requested :
      \A entry \in ReferencedObjects(requested[i]) : Present(entry)

\* C4: in a run that follows a run which completed without error, on the
\* same versions and store, downloadIfChanged issues no GET and writes no
\* file: every call returns false (or fails on the file system).
C4_SecondRunReusesAll ==
  prevOk =>
    /\ ~fetched
    /\ DOMAIN writes = {}
    /\ downloadedFiles = 0
    /\ \A t \in DOMAIN dl :
         /\ dl[t].pc \in {"stat", "returned", "thrown"}
         /\ dl[t].pc = "thrown" => dl[t].error = "IOError"
         /\ ~dl[t].result /\ dl[t].gets = 0
    /\ mainpc = "failed" => runError \in {"RemoteFetchError", "IOError"}

\* C4 witness: the second run has completed, with several objects verified.
C4_Witness ==
  prevOk /\ mainpc = "done" /\ Cardinality(DOMAIN calls) > 1

\* C5: in a run, for every asset index, at most one downloadIfChanged call
\* is made per hash and a path is written at most once; when the processing
\* of an index is complete, exactly one call was made for every hash its
\* document names; object calls go to objects/<hash[0:2]>/<hash>.
IndexComplete(k) ==
  \/ mainpc \in {"folderSize", "done"}
  \/ mainpc \in {"indexDownload", "readIndex", "batch"} /\ k < ai

C5_OneCallPerHash ==
  /\ \A key \in DOMAIN calls : calls[key] = 1
  /\ \A p \in DOMAIN writes : writes[p] = 1
  /\ \A t \in DOMAIN dl \ {0} :
       /\ TaskArgs(t).localPath[3] = SubSeq(objects[t].hash, 1, 2)
       /\ TaskArgs(t).localPath[4] = objects[t].hash
       /\ \A u \in DOMAIN dl \ {0} :
            TaskArgs(u).localPath = TaskArgs(t).localPath => u = t
  /\ \A k \in DOMAIN assetIndices :
       IndexComplete(k) =>
         \A entry \in Range(JsonObjects(Origin(assetIndices[k].url)).values) :
           CallCount([id |-> assetIndices[k].id, hash |-> entry.hash]) = 1

\* C5 witness: an index whose document names one hash twice has been
\* processed and the object of that hash was downloaded.
C5_Witness ==
  /\ mainpc = "done"
  /\ \E k \in DOMAIN assetIndices :
       LET values == JsonObjects(Origin(assetIndices[k].url)).values
       IN \E i, j \in DOMAIN values :
            /\ i # j /\ values[i].hash = values[j].hash
            /\ WriteCount(objectPath(values[i].hash)) = 1

\* C6: at most maxConcurrency object downloads are in flight; the calls made
\* are those of the chunks up to the current one, each chunk maxConcurrency
\* consecutive objects (the last one the rest); and every download in flight
\* belongs to the current chunk: the chunk before has completed.
ObjectsInFlight == InFlight \ {0}

C6_BoundedBatches ==
  /\ Cardinality(ObjectsInFlight) <= maxConcurrency
  /\ bi % maxConcurrency = 0
  /\ mainpc = "batch" =>
       /\ bi < Len(objects)
       /\ DOMAIN dl = 1..Min(bi + maxConcurrency, Len(objects))
  /\ \A t \in ObjectsInFlight : bi < t /\ t <= bi + maxConcurrency

\* C6 witness: a download of the second chunk is in flight after the first
\* chunk, of maxConcurrency downloads, has completed.
C6_Witness ==
  /\ mainpc = "batch" /\ bi = maxConcurrency
  /\ ObjectsInFlight # {}
  /\ \E t \in 1..maxConcurrency : dl[t].result

\* C7: when a requested version is not in the manifest, no asset index is
\* loaded, no download is attempted and nothing is written, wherever the
\* version stands in the list; the run fails, with VersionNotFound unless
\* downloadJson failed first.
C7_VersionNotFoundAborts ==
  (\E i \in DOMAIN requested : requested[i] \notin indexManifest) =>
    /\ mainpc \in {"idle", "manifest", "versionMeta", "failed"}
    /\ mainpc = "failed" => runError \in {"VersionNotFound", "RemoteFetchError"}
    /\ runError = "VersionNotFound" => requested[vi] \notin indexManifest
    /\ (mainpc = "versionMeta" => requested[vi] \in indexManifest)
    /\ loaded = <<>> /\ DOMAIN dl = {}
    /\ ~fetched /\ DOMAIN writes = {} /\ DOMAIN calls = {}

\* C7 witness: the run failed on a missing version that is not the first of
\* the list, after the metadata of the first was fetched.
C7_Witness ==
  mainpc = "failed" /\ runError = "VersionNotFound" /\ vi > 1
    /\ assetIndices # <<>>

\* C8: an asset index id is processed at most once in a run: it stands once
\* in the resolved indices and its processing begins once.
C8_IndexProcessedOnce ==
  /\ \A i, j \in DOMAIN loaded : loaded[i] = loaded[j] => i = j
  /\ \A i, j \in DOMAIN assetIndices :
       assetIndices[i].id = assetIndices[j].id => i = j
  /\ Len(loaded) <= Len(assetIndices)

\* C8 witness: a run on two different versions that share one asset index
\* has completed, having processed one index.
C8_Witness ==
  /\ mainpc = "done" /\ Len(requested) = 2 /\ requested[1] # requested[2]
  /\ VersionMeta(requested[1]) = VersionMeta(requested[2])
  /\ Len(loaded) = 1 /\ fetched

\* C9: a call that finds the local file with the expected size and checksum
\* returns false in that step (unless stat or reading the file fails),
\* issues no GET and changes no file.
C9_ReuseStep(t) ==
  (/\ dl[t].pc = "stat"
   /\ ExpectedBody(Content(TaskArgs(t).localPath), TaskArgs(t).checksum,
                   TaskArgs(t).size)
   /\ dl'[t] # dl[t])
  => /\ (dl'[t].pc = "returned" /\ ~dl'[t].result) \/ IoError(t)
     /\ dl'[t].gets = 0
     /\ fetched' = fetched
     /\ fs' = fs /\ dirs' = dirs /\ writes' = writes

C9_ReuseTouchesNothing ==
  [][\A t \in DOMAIN dl \cap DOMAIN dl' : C9_ReuseStep(t)]_vars

\* C9 witness: a call has returned false on an intact object file while no
\* GET was issued in the run.
C9_Witness ==
  \E t \in DOMAIN dl \ {0} :
    dl[t].pc = "returned" /\ ~dl[t].result /\ ~fetched

\* C10: a call that finds the local file with the expected size and another
\* checksum, or with another size, issues a GET (the first of its budget) and
\* leaves the file as it is (unless stat or reading the file fails); when
\* the call returns true the file has the expected size and checksum.
Damaged(p, checksum, size) ==
  Exists(p) /\ ~ExpectedBody(fs[p], checksum, size)

C10_Step(t) ==
  /\ (/\ dl[t].pc = "stat"
      /\ Damaged(TaskArgs(t).localPath, TaskArgs(t).checksum, TaskArgs(t).size)
      /\ dl'[t] # dl[t])
     => \/ /\ dl'[t].pc = "fetch" /\ dl'[t].gets = 1
           /\ fetched'
           /\ fs' = fs
        \/ IoError(t)
  /\ (dl[t].pc = "writing" /\ dl'[t] # dl[t])
     => /\ dl'[t].pc = "returned" /\ dl'[t].result
        /\ Exists(TaskArgs(t).localPath)'
        /\ ~Damaged(TaskArgs(t).localPath, TaskArgs(t).checksum,
                    TaskArgs(t).size)'

C10_DamagedFileReplaced ==
  [][\A t \in DOMAIN dl \cap DOMAIN dl' : C10_Step(t)]_vars

\* C10 witness: a response was accepted for an object whose local file has
\* the expected size and another checksum, and is about to overwrite it.
C10_Witness ==
  \E t \in DOMAIN dl \ {0} :
    /\ dl[t].pc = "writeFile"
    /\ Exists(TaskArgs(t).localPath)
    /\ Len(fs[TaskArgs(t).localPath]) = TaskArgs(t).size
    /\ createHash(fs[TaskArgs(t).localPath]) # TaskArgs(t).checksum

\* C11: when the counts of an asset index are reported, the downloaded count
\* is the number of its objects whose file was written in the run, and the
\* reused count is the number of distinct hashes of its document minus the
\* downloaded count, the number of objects not written; a call that finds no
\* local file issues a GET (or fails), and a call returns true exactly when it has
\* written the file, so that an object whose file was absent is counted as
\* downloaded.
DistinctHashes(content) ==
  {entry.hash : entry \in Range(JsonObjects(content).values)}

C11_Report ==
  Len(reports') > Len(reports) =>
    LET r == reports'[Len(reports')]
        doc == Content(assetIndexPath(assetIndices[ai].id))
        written == {h \in DistinctHashes(doc) : WriteCount(objectPath(h)) > 0}
    IN /\ r.id = assetIndices[ai].id
       /\ r.downloaded = Cardinality(written)
       /\ r.reused = Cardinality(DistinctHashes(doc)) - r.downloaded
       /\ r.reused = Cardinality(DistinctHashes(doc) \ written)
       /\ \A t \in DOMAIN dl \ {0} :
            dl[t].result <=> objects[t].hash \in written

C11_Call(t) ==
  /\ (dl[t].pc = "stat" /\ ~Exists(TaskArgs(t).localPath) /\ dl'[t] # dl[t])
       => dl'[t].pc = "fetch" \/ IoError(t)
  /\ (dl[t].pc # "returned" /\ dl'[t].pc = "returned")
       => (dl'[t].result <=> dl[t].pc = "writing")

C11_ReportedCounts ==
  [][C11_Report /\ \A t \in (DOMAIN dl \cap DOMAIN dl') \ {0} : C11_Call(t)]_vars

\* C11 witness: an index was reported with one object downloaded and one
\* reused.
C11_Witness ==
  \E i \in DOMAIN reports :
    reports[i].downloaded = 1 /\ reports[i].reused = 1

\* C12: called on a missing file, guessCurrentMinecraftVersionFromFile
\* returns undefined whatever the regexp is; called on a readable file and a
\* regexp of the form /pattern/flags, it returns the text of the first
\* capturing group of the first match of the pattern in the content (the
\* match at the leftmost position that has one, every quantifier taking as
\* many characters as a match allows, the earlier quantifier first), and
\* undefined when the content has no match.
SlashForm(str) ==
  /\ Len(str) >= 2 /\ str[1] = "/" /\ Cardinality(Slashes(str)) >= 2
  /\ \A i \in (Last(Slashes(str)) + 1)..Len(str) : str[i] \in RegExpFlags
  /\ NoDuplicates(SubSeq(str, Last(Slashes(str)) + 1, Len(str)))
  /\ ~Compile(SubSeq(str, 2, Last(Slashes(str)) - 1), 1, CompileStart).error

Quantified(atoms) == {k \in DOMAIN atoms : atoms[k].plus}

\* the atoms before atom k, each taken as often as counts says
RECURSIVE Expansion(_, _, _)
Expansion(atoms, counts, k) ==
  IF k = 0 THEN <<>>
  ELSE Expansion(atoms, counts, k - 1)
       \o (IF atoms[k].kind \in {"open", "close"} THEN <<>>
           ELSE [i \in 1..(IF atoms[k].plus THEN counts[k] ELSE 1) |-> atoms[k]])

Fits(atoms, counts, str, from) ==
  LET taken == Expansion(atoms, counts, Len(atoms))
  IN /\ from + Len(taken) - 1 <= Len(str)
     /\ \A i \in DOMAIN taken : AtomMatches(taken[i], str[from + i - 1])

Preferred(atoms, c, d) ==
  \E k \in Quantified(atoms) :
    /\ c[k] > d[k]
    /\ \A j \in Quantified(atoms) : j < k => c[j] = d[j]

FirstCapture(atoms, str) ==
  LET Counts == [Quantified(atoms) -> 1..(Len(str) + 1)]
      starts == {from \in 1..(Len(str) + 1) :
                   \E c \in Counts : Fits(atoms, c, str, from)}
  IN IF starts = {} THEN ReturnedUndefined
     ELSE LET from == First(starts)
              best == CHOOSE c \in Counts :
                        /\ Fits(atoms, c, str, from)
                        /\ \A d \in Counts :
                             Fits(atoms, d, str, from) =>
                               d = c \/ Preferred(atoms, c, d)
              opens == {k \in DOMAIN atoms : atoms[k].kind = "open"}
              closes == {k \in DOMAIN atoms : atoms[k].kind = "close"}
          IN IF opens = {} THEN ReturnedUndefined
             ELSE ReturnedString(
                    SubSeq(str,
                           from + Len(Expansion(atoms, best, First(opens))),
                           from + Len(Expansion(atoms, best, First(closes))) - 1))

C12_FirstGroupOfFirstMatch ==
  guessed.status # "none" =>
    /\ versionFile.error = "ENOENT" => guessed = ReturnedUndefined
    /\ (versionFile.error = "none" /\ SlashForm(versionRegexp)) =>
         guessed =
           FirstCapture(
             Compile(SubSeq(versionRegexp, 2, Last(Slashes(versionRegexp)) - 1),
                     1, CompileStart).atoms,
             versionFile.content)

\* C12 witness: the group of a match that does not begin the file was
\* returned.
C12_Witness ==
  /\ versionFile = ReadableFile(<<"b", "a", "a">>)
  /\ versionRegexp = <<"/", "(", "a", "+", ")", "/">>
  /\ guessed = ReturnedString(<<"a", "a">>)

\* C13: when downloadAssets has rejected with the DownloadFailed of one
\* object of a batch, no download of the run is outstanding any more: every
\* other call of the batch has returned or thrown, so that none issues a GET
\* or writes a file afterwards.
C13_OutstandingAwaited ==
  (mainpc = "failed" /\ runError = "DownloadFailed") => InFlight = {}

\* C14: once downloadAssets has rejected with DownloadFailed, the invocation
\* makes no further downloadIfChanged call (no later chunk is started), goes
\* on to no other asset index and reports nothing more, and the error it
\* rejected with stays DownloadFailed; a call that throws DownloadFailed
\* while downloadAssets awaits it makes downloadAssets reject with it.
Invoked == mainpc' = "manifest"

C14_Step ==
  /\ (mainpc = "failed" /\ runError = "DownloadFailed" /\ ~Invoked) =>
       /\ mainpc' = "failed" /\ runError' = "DownloadFailed"
       /\ DOMAIN dl' = DOMAIN dl /\ calls' = calls
       /\ ai' = ai /\ bi' = bi /\ loaded' = loaded /\ reports' = reports
  /\ \A t \in DOMAIN dl \cap DOMAIN dl' :
       (dl'[t].error = "DownloadFailed" /\ dl[t].error = "none") =>
         /\ mainpc' = "failed"
         /\ mainpc # "failed" => runError' = "DownloadFailed"

C14_FailureEndsTheRun == [][C14_Step]_vars

\* C14 witness: the run failed with DownloadFailed in the first chunk of an
\* index that has a second chunk and is followed by another index, and
\* every call of the first chunk has settled.
C14_Witness ==
  /\ mainpc = "failed" /\ runError = "DownloadFailed"
  /\ bi = 0 /\ Len(objects) > maxConcurrency /\ ai < Len(assetIndices)
  /\ InFlight = {}
  /\ \E t \in DOMAIN dl : dl[t].pc = "returned" /\ dl[t].result

\* C15: a call issues another GET after one only when the response had a
\* status that is no success, a body of the wrong size or a body of the
\* wrong checksum, and each of them uses up one of the maxDownloadRetries
\* attempts; a call throws DownloadFailed only with the attempts used up and
\* any other error (transport, file system) in the step the error occurs;
\* an error of an awaited call, of downloadJson, of reading the index file or
\* of readdir makes downloadAssets reject at once with that error, and a
\* rejected invocation does nothing more.
C15_Call(t) ==
  /\ (dl[t].pc = "fetch" /\ dl'[t].pc = "fetch") =>
       /\ dl'[t].lastError \in {"http", "size", "checksum"}
       /\ dl'[t].retries = dl[t].retries + 1
       /\ dl'[t].retries <= maxDownloadRetries
  /\ dl'[t].pc = "thrown" =>
       /\ dl'[t].error \in {"DownloadFailed", "FetchError", "IOError"}
       /\ dl'[t].error = "DownloadFailed" =>
            dl[t].pc = "fetch" /\ dl[t].retries = maxDownloadRetries
       /\ dl'[t].error = "FetchError" => dl[t].pc = "fetch"
       /\ mainpc \in {"indexDownload", "batch"} =>
            mainpc' = "failed" /\ runError' = dl'[t].error

C15_Step ==
  /\ \A t \in DOMAIN dl \cap DOMAIN dl' : dl'[t] # dl[t] => C15_Call(t)
  /\ (runError' # runError /\ ~Invoked) =>
       /\ mainpc # "failed" /\ mainpc' = "failed"
       /\ runError' \in {"DownloadFailed", "FetchError", "IOError",
                         "RemoteFetchError", "VersionNotFound",
                         "ManifestParseError"}
  /\ (mainpc = "failed" /\ ~Invoked) =>
       /\ mainpc' = "failed" /\ runError' = runError
       /\ DOMAIN dl' = DOMAIN dl /\ calls' = calls

C15_OnlyDownloadsRetry == [][C15_Step]_vars

\* C15 witness: downloadAssets rejected with the file system error of a call,
\* after a GET was issued in the run.
C15_Witness ==
  /\ mainpc = "failed" /\ runError = "IOError"
  /\ \E t \in DOMAIN dl : dl[t].error = "IOError"
  /\ fetched

\* C16: every file a call writes goes to the path that is derived from the
\* hash of the bytes written and from nothing else, so that the writers of
\* one path write the same bytes: the path of a call that is about to write
\* or is writing is objects/<hash[0:2]>/<hash> of its buffer.
C16_ContentAddressedWrites ==
  \A t \in DOMAIN dl :
    dl[t].pc \in {"writeFile", "writing"} =>
      TaskArgs(t).localPath = objectPath(createHash(dl[t].buffer))

\* C17: the file at a path changes only from what it was to the whole of the
\* bytes a call accepted for that path: no step leaves at a path anything
\* else, such as a part of the accepted bytes.
C17_Step ==
  \A p \in DOMAIN fs' :
    Content(p)' # Content(p) =>
      \E t \in DOMAIN dl :
        /\ TaskArgs(t).localPath = p
        /\ dl[t].pc \in Writing
        /\ Content(p)' = dl[t].buffer

C17_AtomicWrite == [][C17_Step]_vars

\* C18: when an invocation has failed and downloadAssets is called again on
\* the same versions, every file the failed invocation wrote is in place, and
\* the new invocation neither requests nor writes any of them: a call issues
\* a GET only for a path the failed invocation did not write and whose file
\* is absent or does not have the expected size and checksum.
C18_Call(t) ==
  /\ (dl[t].pc = "stat" /\ dl'[t].pc = "fetch") =>
       /\ TaskArgs(t).localPath \notin begun.prevWritten
       /\ ~ExpectedBody(Content(TaskArgs(t).localPath), TaskArgs(t).checksum,
                        TaskArgs(t).size)
  /\ TaskArgs(t).localPath \in begun.prevWritten =>
       /\ dl'[t].pc \in {"stat", "returned", "thrown"}
       /\ dl'[t].pc = "returned" => ~dl'[t].result
       /\ dl'[t].pc = "thrown" => dl'[t].error = "IOError"

C18_Step ==
  /\ (Invoked /\ mainpc = "failed") =>
       /\ fs' = fs
       /\ \A p \in DOMAIN writes : Exists(p) /\ p \in begun'.prevWritten
  /\ (begun.prevFailed /\ ~Invoked) =>
       /\ \A p \in begun.prevWritten :
            Exists(p) /\ fs'[p] = fs[p] /\ p \notin DOMAIN writes'
       /\ \A t \in DOMAIN dl \cap DOMAIN dl' : C18_Call(t)

C18_RerunResumes == [][C18_Step]_vars

\* C18 witness: the invocation after a failed one has completed; it reused
\* what the failed one had written and downloaded something else.
C18_Witness ==
  /\ begun.prevFailed /\ mainpc = "done"
  /\ \E p \in begun.prevWritten : p[2] = objectsDir
  /\ \E p \in DOMAIN writes : p[2] = objectsDir

\* C19: from the moment a call is made until it has accepted a response, no
\* step changes the file at its path or creates or removes its parent
\* directory; a call throws DownloadFailed before it has accepted a
\* response, so that it leaves a file of the wrong size or checksum with the
\* content it had, and an absent file absent, without its parent directory
\* if that was absent too.
C19_Call(t) ==
  /\ dl[t].pc \in {"stat", "fetch"} =>
       /\ Content(TaskArgs(t).localPath)' = Content(TaskArgs(t).localPath)
       /\ dirname(TaskArgs(t).localPath) \in dirs'
            <=> dirname(TaskArgs(t).localPath) \in dirs
       /\ TaskArgs(t).localPath \notin DOMAIN writes'
  /\ (dl'[t].error = "DownloadFailed" /\ dl[t].error = "none") =>
       dl[t].pc = "fetch"

C19_FailedDownloadTouchesNothing ==
  [][\A t \in DOMAIN dl \cap DOMAIN dl' : C19_Call(t)]_vars

\* C19 witness: a call has thrown DownloadFailed for an absent file whose
\* parent directory does not exist, while another file of the run was
\* written.
C19_Witness ==
  \E t \in DOMAIN dl :
    /\ dl[t].error = "DownloadFailed"
    /\ ~Exists(TaskArgs(t).localPath)
    /\ dirname(TaskArgs(t).localPath) \notin dirs
    /\ DOMAIN writes # {}

\* C20: saveCache is called at most once, after downloadAssets has returned
\* without error; when run returned because the cache feature is not
\* available or because restoreCache returned the computed key, then
\* downloadAssets was not called and nothing was saved; when downloadAssets
\* has rejected nothing is saved; and downloadAssets is called only when
\* restoreCache returned another key than the computed one.
Synced == mainpc # "idle"

C20_SavedOnlyAfterSync ==
  /\ saved <= 1
  /\ saved = 1 => mainpc = "done" /\ runpc \in {"saveCache", "saved", "failed"}
  /\ runpc \in {"saveCache", "saved"} => saved = 1
  /\ runpc \in {"unavailable", "upToDate"} =>
       /\ ~Synced /\ saved = 0
       /\ DOMAIN dl = {} /\ ~fetched /\ DOMAIN writes = {}
  /\ runpc = "upToDate" <=>
       (restoredCacheKey = cacheKey(requested) /\ runpc # "restored")
  /\ mainpc = "failed" => saved = 0 /\ runpc \in {"sync", "failed"}
  /\ Synced => restoredCacheKey # cacheKey(requested)

\* C20 witness: a cache entry of other versions was restored, the sync began
\* and failed, and run has rejected without a save.
C20_Witness ==
  /\ runpc = "failed" /\ mainpc = "failed" /\ saved = 0
  /\ restoredCacheKey \notin {NoKey, cacheKey(requested)}
  /\ fetched /\ Len(requested) = 2

====
